---- MODULE Spec2Model ----
\* A model of package gqlerr (src/gqlerr.go, package codes in
\* src/unnamed/part_001): the Error value, its decorations and accessors,
\* RecoverFunc and the function returned by ErrorPresenter.
\*
\* Go values are modelled as follows.
\*   - A Go string is a TLA+ string, "" being the empty string.
\*   - A Go `error` interface value is a record [wraps, typ, addr]: `wraps`
\*     fmt.Errorf("ctx: %w", ...) layers around a base value of dynamic type
\*     `typ`; for typ = "*Error", addr is the pointer (0 is the nil pointer,
\*     a > 0 is the a-th allocated Error of `heap`).
\*   - A Go `any` value is a record [typ, s, i, e].
\*   - A zap.Field is a record with the fields of zapcore.Field.
\*   - The *zap.Logger is a recording sink (`log`), as the observer core of the
\*     tests: each logFn call appends one entry.
\*
\* A behaviour of Spec is one request-handling chain: it constructs one Error
\* in the request context ctx, decorates it, reads it through its accessors
\* and hands errors to the presenter, in any order, within MaxCalls calls.
\* SpecNested follows a chain of resolvers, each making the Error of its
\* callee the cause of its own. SpecConcurrent follows MaxRequests requests
\* served concurrently, each presenter invocation taken one access to the
\* Error, or to the logger, at a time.
EXTENDS Integers, Sequences, FiniteSets, TLC

VARIABLES
    ctx,    \* the ambient request context: the ast.Path graphql.GetPath returns
    heap,   \* the allocated Error structs; a *Error is an index into heap
    log,    \* the entries written to the logger, oldest first
    call,   \* the last call made, its arguments and what it returned
    ncalls, \* the number of calls made
    inflight \* per concurrent request, the locals of its presenter invocation

vars == <<ctx, heap, log, call, ncalls, inflight>>

\* ---------------------------------------------------------------- bounds
MaxWrap == 1
MaxLog == 1
MaxCalls == 3
MaxErrors == 2
MaxRequests == 2

\* ------------------------------------------------------- logLevel (iota)
unsetLevel == 0
debugLevel == 1
infoLevel == 2
warnLevel == 3
errorLevel == 4
panicLevel == 5

\* ------------------------------------------------------------ package codes
InvalidArgumentCode == "invalid_argument"
NotFoundCode == "not_found"
AlreadyExistsCode == "already_exists"
PermissionDeniedCode == "permission_denied"
ResourceExhaustedCode == "resource_exhausted"
FailedPreconditionCode == "failed_precondition"
UnimplementedCode == "unimplemented"
InternalCode == "internal"
UnauthenticatedCode == "unauthenticated"

\* codes.Code is a string type: New accepts any string as a code.
UnknownCode == "teapot"

defaultLevelForCode ==
    (InvalidArgumentCode :> warnLevel) @@
    (NotFoundCode :> warnLevel) @@
    (AlreadyExistsCode :> warnLevel) @@
    (PermissionDeniedCode :> warnLevel) @@
    (ResourceExhaustedCode :> warnLevel) @@
    (FailedPreconditionCode :> warnLevel) @@
    (UnimplementedCode :> warnLevel) @@
    (InternalCode :> errorLevel) @@
    (UnauthenticatedCode :> warnLevel)

defaultMessageForCode ==
    (InvalidArgumentCode :> "invalid argument") @@
    (NotFoundCode :> "not found") @@
    (AlreadyExistsCode :> "already exists") @@
    (PermissionDeniedCode :> "permission denied") @@
    (ResourceExhaustedCode :> "resource exhausted") @@
    (FailedPreconditionCode :> "failed precondition") @@
    (UnimplementedCode :> "unimplemented") @@
    (InternalCode :> "internal error") @@
    (UnauthenticatedCode :> "unauthenticated")

\* ------------------------------------------------------------ error values
NilErr == [wraps |-> 0, typ |-> "nil", addr |-> 0]

\* A *Error held in an error interface; Ptr(0) is the typed nil pointer.
Ptr(a) == [wraps |-> 0, typ |-> "*Error", addr |-> a]

\* randomError{} of the tests and errors.New("muffin validation failed").
randomError == [wraps |-> 0, typ |-> "gqlerr.randomError", addr |-> 0]

underlyingError == [wraps |-> 0, typ |-> "*errors.errorString", addr |-> 0]

PlainErrors == {randomError, underlyingError}

\* fmt.Errorf("ctx: %w", err)
Wrap(err) == [err EXCEPT !.wraps = @ + 1]

\* errors.Unwrap: only the fmt wrapper has an Unwrap method; neither the
\* plain errors nor *Error declare one.
Unwrap(err) == IF err.wraps > 0 THEN [err EXCEPT !.wraps = @ - 1] ELSE NilErr

\* fmt.Sprintf("%T", err)
TypeName(err) == IF err.wraps > 0 THEN "*fmt.wrapError" ELSE err.typ

\* ------------------------------------------------------------- any values
NilValue == [typ |-> "nil", s |-> "", i |-> 0, e |-> NilErr]

StrValue(s) == [typ |-> "string", s |-> s, i |-> 0, e |-> NilErr]

IntValue(i) == [typ |-> "int", s |-> "", i |-> i, e |-> NilErr]

ErrValue(e) == IF e = NilErr THEN NilValue
               ELSE [typ |-> "error", s |-> "", i |-> 0, e |-> e]

\* ------------------------------------------------------------- zap fields
Field(key, type, int, str, iface) ==
    [Key |-> key, Type |-> type, Integer |-> int, String |-> str, Interface |-> iface]

ZapString(key, s) == Field(key, "StringType", 0, s, NilValue)

ZapInt(key, i) == Field(key, "Int64Type", i, "", NilValue)

ZapSkip == Field("", "SkipType", 0, "", NilValue)

ZapNamedError(key, err) ==
    IF err = NilErr THEN ZapSkip
    ELSE Field(key, "ErrorType", 0, "", ErrValue(err))

ZapError(err) == ZapNamedError("error", err)

\* zap.Any chooses the field type from the dynamic type of the value.
ZapAny(key, v) ==
    CASE v.typ = "string" -> ZapString(key, v.s)
      [] v.typ = "int" -> ZapInt(key, v.i)
      [] v.typ = "error" -> ZapNamedError(key, v.e)
      [] OTHER -> Field(key, "ReflectType", 0, "", v)

\* --------------------------------------------------------------- ast.Path
PathName(n) == [kind |-> "name", name |-> n, index |-> 0]

PathIndex(i) == [kind |-> "index", name |-> "", index |-> i]

RECURSIVE PathStringFrom(_, _)
PathStringFrom(path, k) ==
    IF k > Len(path) THEN ""
    ELSE LET v == path[k]
             piece == IF v.kind = "index" THEN "[" \o ToString(v.index) \o "]"
                      ELSE (IF k # 1 THEN "." ELSE "") \o v.name
         IN piece \o PathStringFrom(path, k + 1)

\* ast.Path.String()
PathString(path) == PathStringFrom(path, 1)

\* graphql.GetPath(ctx)
GetPath(c) == c

\* ------------------------------------------------------------ type Error
\* New: level, clientMsg and errorID keep their zero values.
New(c, code, msg, fields) ==
    [code |-> code, msg |-> msg, path |-> GetPath(c), level |-> unsetLevel,
     clientMsg |-> "", fields |-> fields, errorID |-> ""]

Internal(c, msg, fields) == New(c, InternalCode, msg, fields)

InvalidArgument(c, msg, fields) == New(c, InvalidArgumentCode, msg, fields)

\* NotFound forwarding the code of its neighbour.
NotFound_AsAlreadyExists(c, msg, fields) == New(c, AlreadyExistsCode, msg, fields)

NotFound(c, msg, fields) == New(c, NotFoundCode, msg, fields)

AlreadyExists(c, msg, fields) == New(c, AlreadyExistsCode, msg, fields)

PermissionDenied(c, msg, fields) == New(c, PermissionDeniedCode, msg, fields)

ResourceExhausted(c, msg, fields) == New(c, ResourceExhaustedCode, msg, fields)

FailedPrecondition(c, msg, fields) == New(c, FailedPreconditionCode, msg, fields)

Unimplemented(c, msg, fields) == New(c, UnimplementedCode, msg, fields)

Unauthenticated(c, msg, fields) == New(c, UnauthenticatedCode, msg, fields)

\* WithMessage keeping a client message that is already set.
WithMessage_FirstWins(e, msg) ==
    [e EXCEPT !.clientMsg = IF @ = "" THEN msg ELSE @]

WithMessage(e, msg) == [e EXCEPT !.clientMsg = msg]

\* WithErrorID storing the identifier as the code.
WithErrorID_AsCode(e, errID) == [e EXCEPT !.code = errID]

WithErrorID(e, errID) == [e EXCEPT !.errorID = errID]

AtDebug(e) == [e EXCEPT !.level = debugLevel]

AtInfo(e) == [e EXCEPT !.level = infoLevel]

AtWarn(e) == [e EXCEPT !.level = warnLevel]

\* AtError setting the level of its neighbour.
AtError_AsPanic(e) == [e EXCEPT !.level = panicLevel]

AtError(e) == [e EXCEPT !.level = errorLevel]

AtPanic(e) == [e EXCEPT !.level = panicLevel]

\* errFrom without the test of the key.
RECURSIVE errFrom_AnyKey(_, _)
errFrom_AnyKey(fields, k) ==
    IF k > Len(fields) THEN NilErr
    ELSE LET f == fields[k]
         IN IF f.Type # "ErrorType" THEN errFrom_AnyKey(fields, k + 1)
            ELSE IF f.Interface.typ # "error" THEN errFrom_AnyKey(fields, k + 1)
            ELSE f.Interface.e

\* Error.err: the first field with key "error" and type ErrorType whose
\* Interface holds an error; nil when there is none.
RECURSIVE errFrom(_, _)
errFrom(fields, k) ==
    IF k > Len(fields) THEN NilErr
    ELSE LET f == fields[k]
         IN IF f.Key # "error" \/ f.Type # "ErrorType" THEN errFrom(fields, k + 1)
            ELSE IF f.Interface.typ # "error" THEN errFrom(fields, k + 1)
            ELSE f.Interface.e

err(e) == errFrom(e.fields, 1)

\* %s in place of %q
Quote_Bare(s) == s

\* fmt's %q of a string
Quote(s) == "\"" \o s \o "\""

\* err.Error() of an error value, h being the heap. Error.Error renders a
\* present Error as [%q] msg, followed by ": " and the cause when err() finds
\* one, and a nil *Error as "".
RECURSIVE ErrorText(_, _)
ErrorText(x, h) ==
    IF x.wraps > 0 THEN "ctx: " \o ErrorText(Unwrap(x), h)
    ELSE IF x.typ = "gqlerr.randomError" THEN "a random error"
    ELSE IF x.typ = "*errors.errorString" THEN "muffin validation failed"
    ELSE IF x.typ = "*Error" /\ x.addr = 0 THEN ""
    ELSE IF x.typ = "*Error" THEN
        LET e == h[x.addr]
            cause == err(e)
        IN IF cause = NilErr THEN "[" \o Quote(e.code) \o "] " \o e.msg
           ELSE "[" \o Quote(e.code) \o "] " \o e.msg \o ": " \o ErrorText(cause, h)
    ELSE "<nil>"

\* extensions with error_reason written whether or not an identifier is set.
extensions_AlwaysReason(e) ==
    {<<"code", e.code>>, <<"error_reason", e.errorID>>}

\* Error.extensions, a map as a set of <<key, value>> pairs
extensions(e) ==
    {<<"code", e.code>>} \cup
    (IF e.errorID # "" THEN {<<"error_reason", e.errorID>>} ELSE {})

\* logLevel with the table consulted before the override.
logLevel_TableFirst(e) ==
    IF e.code \in DOMAIN defaultLevelForCode THEN defaultLevelForCode[e.code]
    ELSE IF e.level # unsetLevel THEN e.level
    ELSE errorLevel

\* Error.logLevel
logLevel(e) ==
    IF e.level # unsetLevel THEN e.level
    ELSE IF e.code \notin DOMAIN defaultLevelForCode THEN errorLevel
    ELSE defaultLevelForCode[e.code]

\* Error.clientMessage: a Go map yields "" for a missing key.
clientMessage(e) ==
    IF e.clientMsg # "" THEN e.clientMsg
    ELSE IF e.code \in DOMAIN defaultMessageForCode THEN defaultMessageForCode[e.code]
    ELSE ""

\* The nil *gqlerror.Error
NilFrag == [present |-> FALSE, Message |-> "", Path |-> <<>>, Extensions |-> {}]

\* Error.toGQLError on a present receiver (the nil receiver returns NilFrag)
toGQLError(e) ==
    [present |-> TRUE, Message |-> clientMessage(e), Path |-> e.path,
     Extensions |-> extensions(e)]

\* ----------------------------------------------------- errors.As / errors.Is
\* errors.As descending into the cause an Error carries.
RECURSIVE As_Innermost(_)
As_Innermost(x) ==
    IF x = NilErr THEN [ok |-> FALSE, e |-> 0]
    ELSE IF x.wraps = 0 /\ x.typ = "*Error" THEN
        IF x.addr > 0 /\ As_Innermost(err(heap[x.addr])).ok
        THEN As_Innermost(err(heap[x.addr]))
        ELSE [ok |-> TRUE, e |-> x.addr]
    ELSE As_Innermost(Unwrap(x))

\* errors.As(x, &e) with e of type *Error: the first value of the chain whose
\* dynamic type is *Error, a nil pointer included.
RECURSIVE As(_)
As(x) ==
    IF x = NilErr THEN [ok |-> FALSE, e |-> 0]
    ELSE IF x.wraps = 0 /\ x.typ = "*Error" THEN [ok |-> TRUE, e |-> x.addr]
    ELSE As(Unwrap(x))

\* errors.Is(x, target)
RECURSIVE Is(_, _)
Is(x, target) ==
    IF x = NilErr THEN FALSE
    ELSE IF x = target THEN TRUE
    ELSE Is(Unwrap(x), target)

\* ------------------------------------------------------------- the logger
Entry(level, msg, fields) == [Level |-> level, Message |-> msg, Context |-> fields]

\* The logger method logError's switch selects, named by the zapcore level
\* the method writes at.
logFn(level) ==
    CASE level = debugLevel -> "debug"
      [] level = infoLevel -> "info"
      [] level = warnLevel -> "warn"
      [] level = errorLevel -> "error"
      [] level = panicLevel -> "dpanic"
      [] OTHER -> "error"

\* logFields with the gql_path field prepended whatever the path.
logFields_AlwaysPrepends(e) ==
    <<ZapString("gql_path", PathString(e.path))>> \o e.fields

\* The fields logError leaves in err.fields and passes to logFn.
logFields(e) ==
    IF PathString(e.path) # ""
    THEN <<ZapString("gql_path", PathString(e.path))>> \o e.fields
    ELSE e.fields

\* debug.Stack()
Stack == "goroutine 1 [running]:\nruntime/debug.Stack()"

\* RecoverFunc without the severity override.
RecoverFunc_NoPanicLevel(c, v) == Internal(c, Stack, <<ZapAny("recover", v)>>)

\* RecoverFunc
RecoverFunc(c, v) == AtPanic(Internal(c, Stack, <<ZapAny("recover", v)>>))

\* ------------------------------------------------------------------ inputs
Paths == {<<>>, <<PathName("user"), PathIndex(0), PathName("muffins")>>}

Msgs == {"some error"}

ClientMsgs == {"", "bad input given"}

ErrorIDs == {"", "muffins_must_be_positive"}

AllCodes == DOMAIN defaultLevelForCode \cup {UnknownCode}

\* A Field built by hand: tagged ErrorType under the key "error", its
\* Interface not an error.
BadErrorField == Field("error", "ErrorType", 0, "", StrValue("not an error"))

FieldLists ==
    { <<>>,
      <<ZapNamedError("cause", underlyingError)>>,
      <<ZapString("a_field", "test"), ZapInt("another_field", 123),
        ZapNamedError("cause", underlyingError), BadErrorField,
        ZapError(randomError), ZapError(underlyingError)>> }

RecoveredValues == {StrValue("Panic! At The Disco"), IntValue(42), ErrValue(randomError)}

RECURSIVE WrapN(_, _)
WrapN(x, n) == IF n = 0 THEN x ELSE Wrap(WrapN(x, n - 1))

\* The errors a handler can return to the presenter: nil, a plain error, a
\* nil *Error, a *Error, and each of the last three wrapped by fmt.Errorf.
HandlerErrors ==
    {NilErr} \cup
    { WrapN(x, n) : x \in PlainErrors \cup {Ptr(a) : a \in 0..Len(heap)}, n \in 0..MaxWrap }

Addrs == 1..Len(heap)

\* -------------------------------------------------------------------- calls
NoCall ==
    [op |-> "none", self |-> 0, code |-> "", arg |-> NilValue, fields |-> <<>>,
     in |-> NilErr, ret |-> NilErr, text |-> "", frag |-> NilFrag, ok |-> FALSE,
     panicked |-> FALSE]

Requests == 1..MaxRequests

\* The locals of a presenter invocation that has not started: pc is the
\* position in the code, err the error the handler returned, e the *Error
\* errors.As found, logFn the logger method logError selected, frag the
\* fragment returned; start is the Error as errors.As found it.
Idle ==
    [pc |-> "idle", err |-> NilErr, e |-> 0, logFn |-> "", frag |-> NilFrag,
     start |-> New(<<>>, "", "", <<>>)]

Init ==
    /\ ctx \in Paths
    /\ heap = <<>>
    /\ log = <<>>
    /\ call = NoCall
    /\ ncalls = 0
    /\ inflight = [r \in Requests |-> Idle]

\* A constructor call: allocate e and return the pointer to it. A behaviour
\* follows one request-handling chain, which constructs one Error.
Construct(op, code, arg, fields, e) ==
    /\ heap = <<>>
    /\ ncalls < MaxCalls
    /\ heap' = Append(heap, e)
    /\ call' = [NoCall EXCEPT !.op = op, !.code = code, !.arg = arg, !.fields = fields,
                              !.ret = Ptr(Len(heap) + 1)]
    /\ ncalls' = ncalls + 1
    /\ UNCHANGED <<ctx, log, inflight>>

CallNew ==
    \E code \in AllCodes, msg \in Msgs, fields \in FieldLists :
        Construct("New", code, StrValue(msg), fields, New(ctx, code, msg, fields))

CallInternal ==
    \E msg \in Msgs, fields \in FieldLists :
        Construct("Internal", "", StrValue(msg), fields, Internal(ctx, msg, fields))

CallInvalidArgument ==
    \E msg \in Msgs, fields \in FieldLists :
        Construct("InvalidArgument", "", StrValue(msg), fields, InvalidArgument(ctx, msg, fields))

CallNotFound ==
    \E msg \in Msgs, fields \in FieldLists :
        Construct("NotFound", "", StrValue(msg), fields, NotFound(ctx, msg, fields))

CallAlreadyExists ==
    \E msg \in Msgs, fields \in FieldLists :
        Construct("AlreadyExists", "", StrValue(msg), fields, AlreadyExists(ctx, msg, fields))

CallPermissionDenied ==
    \E msg \in Msgs, fields \in FieldLists :
        Construct("PermissionDenied", "", StrValue(msg), fields,
                  PermissionDenied(ctx, msg, fields))

CallResourceExhausted ==
    \E msg \in Msgs, fields \in FieldLists :
        Construct("ResourceExhausted", "", StrValue(msg), fields,
                  ResourceExhausted(ctx, msg, fields))

CallFailedPrecondition ==
    \E msg \in Msgs, fields \in FieldLists :
        Construct("FailedPrecondition", "", StrValue(msg), fields,
                  FailedPrecondition(ctx, msg, fields))

CallUnimplemented ==
    \E msg \in Msgs, fields \in FieldLists :
        Construct("Unimplemented", "", StrValue(msg), fields, Unimplemented(ctx, msg, fields))

CallUnauthenticated ==
    \E msg \in Msgs, fields \in FieldLists :
        Construct("Unauthenticated", "", StrValue(msg), fields, Unauthenticated(ctx, msg, fields))

CallRecoverFunc ==
    \E v \in RecoveredValues :
        Construct("RecoverFunc", "", v, <<>>, RecoverFunc(ctx, v))

\* A decoration call on the Error at a: store e2 and return the receiver.
Decorate(op, a, arg, e2) ==
    /\ ncalls < MaxCalls
    /\ heap' = [heap EXCEPT ![a] = e2]
    /\ call' = [NoCall EXCEPT !.op = op, !.self = a, !.arg = arg, !.ret = Ptr(a)]
    /\ ncalls' = ncalls + 1
    /\ UNCHANGED <<ctx, log, inflight>>

CallWithMessage ==
    \E a \in Addrs, msg \in ClientMsgs :
        Decorate("WithMessage", a, StrValue(msg), WithMessage(heap[a], msg))

CallWithErrorID ==
    \E a \in Addrs, errID \in ErrorIDs :
        Decorate("WithErrorID", a, StrValue(errID), WithErrorID(heap[a], errID))

CallAtDebug == \E a \in Addrs : Decorate("AtDebug", a, NilValue, AtDebug(heap[a]))

CallAtInfo == \E a \in Addrs : Decorate("AtInfo", a, NilValue, AtInfo(heap[a]))

CallAtWarn == \E a \in Addrs : Decorate("AtWarn", a, NilValue, AtWarn(heap[a]))

CallAtError == \E a \in Addrs : Decorate("AtError", a, NilValue, AtError(heap[a]))

CallAtPanic == \E a \in Addrs : Decorate("AtPanic", a, NilValue, AtPanic(heap[a]))

\* The errors the ErrorType-tagged fields of e carry, whatever their key.
EmbeddedCauses(e) ==
    { e.fields[k].Interface.e :
        k \in { j \in 1..Len(e.fields) :
                  e.fields[j].Type = "ErrorType" /\ e.fields[j].Interface.typ = "error" } }

\* A call of the accessor err on the Error at a.
CallErr ==
    \E a \in Addrs :
        /\ ncalls < MaxCalls
        /\ call' = [NoCall EXCEPT !.op = "err", !.self = a, !.ret = err(heap[a])]
        /\ ncalls' = ncalls + 1
        /\ UNCHANGED <<ctx, heap, log, inflight>>

\* A call of Error() on the Error at a, or on the nil *Error (a = 0).
CallError ==
    \E a \in 0..Len(heap) :
        /\ ncalls < MaxCalls
        /\ call' = [NoCall EXCEPT !.op = "Error", !.self = a, !.in = Ptr(a),
                                  !.text = ErrorText(Ptr(a), heap)]
        /\ ncalls' = ncalls + 1
        /\ UNCHANGED <<ctx, heap, log, inflight>>

\* errors.Is(x, target) by calling code, x being the Error at a, an error
\* wrapping it or what its accessor err returns, and target an error one of
\* its fields carries.
CallErrorsIs ==
    \E a \in Addrs :
        \E x \in {WrapN(Ptr(a), n) : n \in 0..MaxWrap} \cup ({err(heap[a])} \ {NilErr}),
           target \in EmbeddedCauses(heap[a]) :
            /\ ncalls < MaxCalls
            /\ call' = [NoCall EXCEPT !.op = "errors.Is", !.self = a, !.in = x,
                                      !.ret = target, !.ok = Is(x, target)]
            /\ ncalls' = ncalls + 1
            /\ UNCHANGED <<ctx, heap, log, inflight>>

\* logError(logger, err), err being the pointer a: the heap and the log it
\* leaves. A nil pointer is dereferenced by err.logLevel().
logError(h, l, a) ==
    IF a = 0 THEN [panicked |-> TRUE, heap |-> h, log |-> l]
    ELSE [panicked |-> FALSE,
          heap |-> [h EXCEPT ![a].fields = logFields(h[a])],
          log |-> Append(l, Entry(logFn(logLevel(h[a])), h[a].msg, logFields(h[a])))]

\* ErrorPresenter with the text of an unrecognized error surfaced as the
\* client message of the synthesized Internal error.
ErrorPresenter_SurfacesText(c, h, l, x) ==
    IF x = NilErr THEN [panicked |-> FALSE, heap |-> h, log |-> l, frag |-> NilFrag]
    ELSE IF As(x).ok THEN
        LET r == logError(h, l, As(x).e)
        IN IF r.panicked
           THEN [panicked |-> TRUE, heap |-> h, log |-> l, frag |-> NilFrag]
           ELSE [panicked |-> FALSE, heap |-> r.heap, log |-> r.log,
                 frag |-> toGQLError(r.heap[As(x).e])]
    ELSE [panicked |-> FALSE, heap |-> h,
          log |-> Append(l, Entry("error",
                                  "received error that was not of type *gqlerr.Error",
                                  <<ZapString("type", TypeName(x)), ZapError(x)>>)),
          frag |-> toGQLError(WithMessage(Internal(c, ErrorText(x, h), <<ZapError(x)>>),
                                          ErrorText(x, h)))]

\* The function ErrorPresenter returns, applied to x: whether it panicked, the
\* heap and the log it leaves and the fragment it returns.
ErrorPresenter(c, h, l, x) ==
    IF x = NilErr THEN [panicked |-> FALSE, heap |-> h, log |-> l, frag |-> NilFrag]
    ELSE IF As(x).ok THEN
        LET r == logError(h, l, As(x).e)
        IN IF r.panicked
           THEN [panicked |-> TRUE, heap |-> h, log |-> l, frag |-> NilFrag]
           ELSE [panicked |-> FALSE, heap |-> r.heap, log |-> r.log,
                 frag |-> toGQLError(r.heap[As(x).e])]
    ELSE [panicked |-> FALSE, heap |-> h,
          log |-> Append(l, Entry("error",
                                  "received error that was not of type *gqlerr.Error",
                                  <<ZapString("type", TypeName(x)), ZapError(x)>>)),
          frag |-> toGQLError(Internal(c, ErrorText(x, h), <<ZapError(x)>>))]

CallErrorPresenter ==
    \E x \in HandlerErrors :
        /\ ncalls < MaxCalls
        /\ Len(log) < MaxLog
        /\ LET r == ErrorPresenter(ctx, heap, log, x)
           IN /\ heap' = r.heap
              /\ log' = r.log
              /\ call' = [NoCall EXCEPT !.op = "ErrorPresenter", !.in = x,
                                        !.frag = r.frag, !.panicked = r.panicked]
        /\ ncalls' = ncalls + 1
        /\ UNCHANGED <<ctx, inflight>>

Next ==
    \/ CallNew
    \/ CallInternal
    \/ CallInvalidArgument
    \/ CallNotFound
    \/ CallAlreadyExists
    \/ CallPermissionDenied
    \/ CallResourceExhausted
    \/ CallFailedPrecondition
    \/ CallUnimplemented
    \/ CallUnauthenticated
    \/ CallRecoverFunc
    \/ CallWithMessage
    \/ CallWithErrorID
    \/ CallAtDebug
    \/ CallAtInfo
    \/ CallAtWarn
    \/ CallAtError
    \/ CallAtPanic
    \/ CallErr
    \/ CallError
    \/ CallErrorsIs
    \/ CallErrorPresenter

Spec == Init /\ [][Next]_vars

\* ------------------------------------------------------------ nested Errors
\* SomeResolver of the usage example, its callee having returned the Error at
\* a, possibly wrapped by fmt.Errorf: it returns
\* InvalidArgument(ctx, "request failed validation", zap.Error(err)).
\*     WithMessage("invalid request").
SomeResolver ==
    \E a \in Addrs, n \in 0..MaxWrap :
        /\ Len(heap) < MaxErrors
        /\ ncalls < MaxCalls
        /\ heap' = Append(heap,
                WithMessage(InvalidArgument(ctx, "request failed validation",
                                            <<ZapError(WrapN(Ptr(a), n))>>),
                            "invalid request"))
        /\ call' = [NoCall EXCEPT !.op = "SomeResolver", !.in = WrapN(Ptr(a), n),
                                  !.ret = Ptr(Len(heap) + 1)]
        /\ ncalls' = ncalls + 1
        /\ UNCHANGED <<ctx, log, inflight>>

\* A chain of resolvers: the innermost constructs an Error, each caller may
\* make it the cause of an Error of its own, and the presenter is handed what
\* the outermost returns.
NextNested ==
    \/ CallNotFound
    \/ CallInternal
    \/ SomeResolver
    \/ CallWithErrorID
    \/ CallAtDebug
    \/ CallErrorPresenter

SpecNested == Init /\ [][NextNested]_vars

\* ------------------------------------------------------ concurrent requests
\* The Errors the handler of a request whose context has path p returns.
RequestErrors(p) ==
    { NotFound(p, msg, <<ZapError(underlyingError)>>) : msg \in Msgs } \cup
    { RecoverFunc(p, IntValue(42)) }

\* var logFn of logError shared by every invocation.
SetLogFn_Shared(st, r, fn) == [s \in DOMAIN st |-> [st[s] EXCEPT !.logFn = fn]]

\* var logFn of logError: a local of the invocation r.
SetLogFn(st, r, fn) == [st EXCEPT ![r].logFn = fn]

\* The handler of request r, its context having path p, returns a new Error.
\* Requests are numbered in the order their handlers allocate.
HandlerReturns(r) ==
    \E e \in UNION {RequestErrors(p) : p \in Paths} :
        /\ inflight[r].pc = "idle"
        /\ Len(heap) = r - 1
        /\ heap' = Append(heap, e)
        /\ inflight' = [inflight EXCEPT ![r].pc = "returned",
                                        ![r].err = Ptr(Len(heap) + 1)]
        /\ UNCHANGED <<ctx, log, call, ncalls>>

\* errors.As(err, &e), which succeeds on the *Error the handler returned
PresenterAs(r) ==
    /\ inflight[r].pc = "returned"
    /\ As(inflight[r].err).ok
    /\ inflight' = [inflight EXCEPT ![r].pc = "resolved",
                                    ![r].e = As(inflight[r].err).e,
                                    ![r].start = heap[As(inflight[r].err).e]]
    /\ UNCHANGED <<ctx, heap, log, call, ncalls>>

\* logError: the switch on err.logLevel()
LogErrorLevel(r) ==
    /\ inflight[r].pc = "resolved"
    /\ inflight' = [SetLogFn(inflight, r, logFn(logLevel(heap[inflight[r].e])))
                      EXCEPT ![r].pc = "leveled"]
    /\ UNCHANGED <<ctx, heap, log, call, ncalls>>

\* logError: the write of err.fields
LogErrorPath(r) ==
    /\ inflight[r].pc = "leveled"
    /\ heap' = [heap EXCEPT ![inflight[r].e].fields = logFields(heap[inflight[r].e])]
    /\ inflight' = [inflight EXCEPT ![r].pc = "pathed"]
    /\ UNCHANGED <<ctx, log, call, ncalls>>

\* logError: logFn(err.msg, err.fields...), the logger serializing its writes
LogErrorWrite(r) ==
    /\ inflight[r].pc = "pathed"
    /\ log' = Append(log, Entry(inflight[r].logFn, heap[inflight[r].e].msg,
                                heap[inflight[r].e].fields))
    /\ inflight' = [inflight EXCEPT ![r].pc = "logged"]
    /\ UNCHANGED <<ctx, heap, call, ncalls>>

\* return e.toGQLError()
PresenterReturns(r) ==
    /\ inflight[r].pc = "logged"
    /\ inflight' = [inflight EXCEPT ![r].pc = "done",
                                    ![r].frag = toGQLError(heap[inflight[r].e])]
    /\ UNCHANGED <<ctx, heap, log, call, ncalls>>

NextConcurrent ==
    \/ \E r \in Requests : HandlerReturns(r)
    \/ \E r \in Requests : PresenterAs(r)
    \/ \E r \in Requests : LogErrorLevel(r)
    \/ \E r \in Requests : LogErrorPath(r)
    \/ \E r \in Requests : LogErrorWrite(r)
    \/ \E r \in Requests : PresenterReturns(r)

SpecConcurrent == Init /\ [][NextConcurrent]_vars

\* ==================================================================== claims
\* A step taken by a call of the presenter, of a decoration, of a constructor.
PresenterStep == ncalls' = ncalls + 1 /\ call'.op = "ErrorPresenter"

DecorationOps ==
    {"WithMessage", "WithErrorID", "AtDebug", "AtInfo", "AtWarn", "AtError", "AtPanic"}

DecorationStep == ncalls' = ncalls + 1 /\ call'.op \in DecorationOps

\* The presenter was last called, on an input that resolves to the Error at
\* a > 0: ResolvedAddr is that a, and 0 in any other state.
ResolvedAddr(c) ==
    IF c.op = "ErrorPresenter" /\ c.in # NilErr /\ As(c.in).ok THEN As(c.in).e ELSE 0

\* An input with no *Error in its chain, as the presenter's input.
NoErrorInChain(x) == x # NilErr /\ ~As(x).ok

\* C1: every call of the presenter completes without panicking, writes zero
\* or one log entry and returns one fragment, whatever the input error.
C1_PresenterNeverFails ==
    [][PresenterStep =>
        /\ ~call'.panicked
        /\ Len(log') \in {Len(log), Len(log) + 1}
        /\ (call'.frag = NilFrag \/ call'.frag.present)]_vars

\* C2: on an error with no *Error in its chain the presenter appends exactly
\* one entry, at error level, with the fixed message and the fields
\* [type: dynamic type name, error: the input], and returns the fragment
\* {message "internal error", extensions exactly {code: internal}}, in which
\* the text of the input error does not appear.
C2_WrongTypeEntry(x) ==
    [Level |-> "error",
     Message |-> "received error that was not of type *gqlerr.Error",
     Context |-> << [Key |-> "type", Type |-> "StringType", Integer |-> 0,
                     String |-> (IF x.wraps > 0 THEN "*fmt.wrapError" ELSE x.typ),
                     Interface |-> NilValue],
                    [Key |-> "error", Type |-> "ErrorType", Integer |-> 0,
                     String |-> "",
                     Interface |-> [typ |-> "error", s |-> "", i |-> 0, e |-> x]] >>]

C2_WrongTypePresented ==
    [][(PresenterStep /\ NoErrorInChain(call'.in)) =>
        /\ ~call'.panicked
        /\ log' = Append(log, C2_WrongTypeEntry(call'.in))
        /\ heap' = heap
        /\ call'.frag.present
        /\ call'.frag.Message = "internal error"
        /\ call'.frag.Extensions = {<<"code", "internal">>}
        /\ call'.frag.Path = ctx
        /\ ErrorText(call'.in, heap) # call'.frag.Message
        /\ \A p \in call'.frag.Extensions : p[2] # ErrorText(call'.in, heap)]_vars

C2_Witness ==
    /\ call.op = "ErrorPresenter"
    /\ call.in = Wrap(randomError)
    /\ Len(log) = 1
    /\ call.frag.present

\* C3: when the presenter resolves its input to the Error e it appends
\* exactly one entry: level mapped from e's resolved severity (panic to
\* dpanic), message e.msg, fields e.fields in order, preceded by one
\* gql_path field if and only if e.path is not empty.
C3_SinkLevel ==
    (debugLevel :> "debug") @@ (infoLevel :> "info") @@ (warnLevel :> "warn") @@
    (errorLevel :> "error") @@ (panicLevel :> "dpanic")

C3_ResolvedEntry ==
    [][(PresenterStep /\ ResolvedAddr(call') > 0) =>
        LET e == heap[ResolvedAddr(call')]
            gql == [Key |-> "gql_path", Type |-> "StringType", Integer |-> 0,
                    String |-> PathString(e.path), Interface |-> NilValue]
        IN /\ ~call'.panicked
           /\ Len(log') = Len(log) + 1
           /\ SubSeq(log', 1, Len(log)) = log
           /\ logLevel(e) \in DOMAIN C3_SinkLevel
           /\ log'[Len(log')].Level = C3_SinkLevel[logLevel(e)]
           /\ log'[Len(log')].Message = e.msg
           /\ log'[Len(log')].Context =
                (IF e.path # <<>> THEN <<gql>> \o e.fields ELSE e.fields)]_vars

C3_Witness ==
    /\ ResolvedAddr(call) > 0
    /\ Len(log) = 1
    /\ log[1].Level = "dpanic"
    /\ Len(log[1].Context) = 7
    /\ log[1].Context[1].Key = "gql_path"
    /\ log[1].Context[1].String = "user[0].muffins"

\* C4: on a nil error the presenter writes nothing and returns the nil
\* fragment; on every other input it writes exactly one entry.
C4_OnlyNilIsSilent ==
    [][PresenterStep =>
        /\ (call'.in = NilErr => (log' = log /\ call'.frag = NilFrag))
        /\ (call'.in # NilErr => Len(log') = Len(log) + 1)]_vars

\* The code each of the nine code-specific constructors stands for.
C5_ConstructorCode ==
    ("InvalidArgument" :> "invalid_argument") @@
    ("NotFound" :> "not_found") @@
    ("AlreadyExists" :> "already_exists") @@
    ("PermissionDenied" :> "permission_denied") @@
    ("ResourceExhausted" :> "resource_exhausted") @@
    ("FailedPrecondition" :> "failed_precondition") @@
    ("Unimplemented" :> "unimplemented") @@
    ("Internal" :> "internal") @@
    ("Unauthenticated" :> "unauthenticated")

\* The severity table of the nine codes: error for internal, warn otherwise.
C5_TableDefault(code) == IF code = "internal" THEN errorLevel ELSE warnLevel

\* The level each At decoration names.
C5_NamedLevel ==
    ("AtDebug" :> debugLevel) @@ ("AtInfo" :> infoLevel) @@ ("AtWarn" :> warnLevel) @@
    ("AtError" :> errorLevel) @@ ("AtPanic" :> panicLevel)

\* C5: in every reachable state the resolved severity of every Error is its
\* override when one is set and the table default of its code otherwise, and
\* is never unset; right after an At decoration it is the level the
\* decoration names; right after one of the nine constructors it is the table
\* default of that constructor's code.
C5_ResolvedSeverity ==
    /\ \A a \in Addrs :
        LET e == heap[a]
        IN /\ logLevel(e) # unsetLevel
           /\ logLevel(e) \in {debugLevel, infoLevel, warnLevel, errorLevel, panicLevel}
           /\ (e.level # unsetLevel => logLevel(e) = e.level)
           /\ (e.level = unsetLevel
                 /\ e.code \in {C5_ConstructorCode[c] : c \in DOMAIN C5_ConstructorCode}
                 => logLevel(e) = C5_TableDefault(e.code))
    /\ (call.op \in DOMAIN C5_NamedLevel
          => logLevel(heap[call.self]) = C5_NamedLevel[call.op])
    /\ (call.op \in DOMAIN C5_ConstructorCode
          => /\ heap[call.ret.addr].level = unsetLevel
             /\ logLevel(heap[call.ret.addr]) = C5_TableDefault(C5_ConstructorCode[call.op]))

C5_Witness ==
    /\ call.op = "AtInfo"
    /\ ncalls = 3
    /\ heap[call.self].code = "not_found"
    /\ logLevel(heap[call.self]) = infoLevel

\* The default client message of the nine codes.
C6_TableMessage ==
    ("invalid_argument" :> "invalid argument") @@
    ("not_found" :> "not found") @@
    ("already_exists" :> "already exists") @@
    ("permission_denied" :> "permission denied") @@
    ("resource_exhausted" :> "resource exhausted") @@
    ("failed_precondition" :> "failed precondition") @@
    ("unimplemented" :> "unimplemented") @@
    ("internal" :> "internal error") @@
    ("unauthenticated" :> "unauthenticated")

\* C6: the fragment the presenter returns for a present Error e has the
\* client message override as message when that is not empty and the default
\* message of e's code otherwise, e's request path (the path of the context
\* e was constructed in) as path, and as extensions code, always, and
\* error_reason exactly when e's error identifier is not empty, nothing else.
C6_Fragment ==
    ResolvedAddr(call) > 0 =>
        LET e == heap[ResolvedAddr(call)]
            f == call.frag
        IN /\ f.present
           /\ (e.clientMsg # "" => f.Message = e.clientMsg)
           /\ (e.clientMsg = "" /\ e.code \in DOMAIN C6_TableMessage
                 => f.Message = C6_TableMessage[e.code])
           /\ f.Path = e.path
           /\ f.Path = ctx
           /\ <<"code", e.code>> \in f.Extensions
           /\ (e.errorID # "" <=> \E p \in f.Extensions : p[1] = "error_reason")
           /\ \A p \in f.Extensions :
                \/ p = <<"code", e.code>>
                \/ p = <<"error_reason", e.errorID>>

C6_Witness ==
    /\ ResolvedAddr(call) > 0
    /\ call.frag.Message = "permission denied"
    /\ call.frag.Path # <<>>
    /\ call.frag.Extensions =
         {<<"code", "permission_denied">>, <<"error_reason", "muffins_must_be_positive">>}

\* What a decoration is to leave in the Error: its own field overwritten by
\* its argument, every other field as it was.
C7_Decorated(e, op, arg) ==
    [code |-> e.code, msg |-> e.msg, path |-> e.path, fields |-> e.fields,
     clientMsg |-> IF op = "WithMessage" THEN arg.s ELSE e.clientMsg,
     errorID |-> IF op = "WithErrorID" THEN arg.s ELSE e.errorID,
     level |-> IF op \in DOMAIN C5_NamedLevel THEN C5_NamedLevel[op] ELSE e.level]

\* C7: every decoration step returns its receiver and overwrites only its own
\* field with its argument (so the last decoration of a field wins); applied a
\* second time with the same argument it changes nothing, and decorations of
\* different fields commute.
C7_Decorations ==
    [][DecorationStep =>
        LET a == call'.self
            e == heap[a]
            e2 == heap'[a]
        IN /\ call'.ret = Ptr(a)
           /\ heap' = [heap EXCEPT ![a] = C7_Decorated(e, call'.op, call'.arg)]
           /\ log' = log
           /\ \A m \in ClientMsgs, id \in ErrorIDs :
                /\ WithMessage(WithMessage(e2, m), m) = WithMessage(e2, m)
                /\ WithErrorID(WithErrorID(e2, id), id) = WithErrorID(e2, id)
                /\ WithMessage(WithErrorID(e2, id), m) = WithErrorID(WithMessage(e2, m), id)
                /\ AtDebug(WithMessage(e2, m)) = WithMessage(AtDebug(e2), m)
                /\ AtInfo(WithMessage(e2, m)) = WithMessage(AtInfo(e2), m)
                /\ AtWarn(WithErrorID(e2, id)) = WithErrorID(AtWarn(e2), id)
                /\ AtError(WithErrorID(e2, id)) = WithErrorID(AtError(e2), id)
                /\ AtPanic(WithMessage(e2, m)) = WithMessage(AtPanic(e2), m)
           /\ AtDebug(AtDebug(e2)) = AtDebug(e2)
           /\ AtInfo(AtInfo(e2)) = AtInfo(e2)
           /\ AtWarn(AtWarn(e2)) = AtWarn(e2)
           /\ AtError(AtError(e2)) = AtError(e2)
           /\ AtPanic(AtPanic(e2)) = AtPanic(e2)]_vars

C7_Witness ==
    /\ call.op = "WithMessage"
    /\ call.arg.s = ""
    /\ ncalls = 3
    /\ heap[call.self].clientMsg = ""
    /\ heap[call.self].errorID = "muffins_must_be_positive"

\* The positions of the fields of e tagged as carrying an embedded error
\* (type ErrorType, holding an error), and those among them keyed "error".
C8_Tagged(e) ==
    {k \in 1..Len(e.fields) :
        e.fields[k].Type = "ErrorType" /\ e.fields[k].Interface.typ = "error"}

C8_TaggedAndKeyed(e) == {k \in C8_Tagged(e) : e.fields[k].Key = "error"}

C8_First(e, positions) ==
    IF positions = {} THEN NilErr
    ELSE e.fields[CHOOSE k \in positions : \A j \in positions : k <= j].Interface.e

\* C8 as claimed: err returns the error carried by the first field tagged as
\* carrying an embedded error, whatever that field's key, and nil when no
\* field is so tagged.
C8_FirstTaggedWhateverKey ==
    call.op = "err" => call.ret = C8_First(heap[call.self], C8_Tagged(heap[call.self]))

\* C8, amended: err returns the error carried by the first field that has
\* the key "error" and is tagged as carrying an embedded error, whatever its
\* position, and nil when there is no such field.
C8_FirstTaggedKeyedError ==
    call.op = "err" =>
        call.ret = C8_First(heap[call.self], C8_TaggedAndKeyed(heap[call.self]))

C8_Witness ==
    /\ call.op = "err"
    /\ call.ret = randomError
    /\ C8_Tagged(heap[call.self]) # C8_TaggedAndKeyed(heap[call.self])
    /\ \E k \in 1..Len(heap[call.self].fields) :
         /\ heap[call.self].fields[k].Key = "gql_path"
         /\ k < 5

\* C9: errors.Is applied to an Error (or to an error wrapping it) and the
\* cause its embedded-cause field carries succeeds.
C9_IsReachesCause ==
    (/\ call.op = "errors.Is"
     /\ As(call.in).ok
     /\ call.ret = err(heap[call.self])) => call.ok

\* fmt.Sprint of a recovered value
C10_Sprint(v) ==
    CASE v.typ = "string" -> v.s
      [] v.typ = "int" -> ToString(v.i)
      [] OTHER -> ErrorText(v.e, heap)

\* C10 as claimed: the Error RecoverFunc returns carries a field recover
\* whose value is the string form of the recovered value.
C10_RecoverFieldIsString ==
    call.op = "RecoverFunc" =>
        \E k \in 1..Len(heap[call.ret.addr].fields) :
            LET f == heap[call.ret.addr].fields[k]
            IN f.Key = "recover" /\ f.Type = "StringType" /\ f.String = C10_Sprint(call.arg)

\* The recover field as zap.Any encodes the recovered value: a string field
\* for a string, an integer field for an integer, an error field for an error.
C10_RecoverField(v) ==
    [Key |-> "recover",
     Type |-> CASE v.typ = "string" -> "StringType"
                [] v.typ = "int" -> "Int64Type"
                [] OTHER -> "ErrorType",
     Integer |-> v.i,
     String |-> v.s,
     Interface |-> IF v.typ = "error" THEN v ELSE NilValue]

C10_Recovered(v) ==
    [code |-> "internal", msg |-> Stack, path |-> ctx, level |-> panicLevel,
     clientMsg |-> "", errorID |-> "", fields |-> <<C10_RecoverField(v)>>]

\* C10, amended: RecoverFunc returns a new Error with code internal, severity
\* override panic, the stack trace as message and the single field recover
\* carrying the recovered value as zap.Any encodes it; the presenter, given
\* that Error, appends exactly one entry, at the dpanic level, with the stack
\* trace as message and that recover field among its fields.
C10_RecoverFunc ==
    [][/\ (ncalls' = ncalls + 1 /\ call'.op = "RecoverFunc") =>
            /\ call'.ret = Ptr(Len(heap) + 1)
            /\ heap' = Append(heap, C10_Recovered(call'.arg))
       /\ (PresenterStep /\ ResolvedAddr(call') > 0) =>
            \A v \in RecoveredValues :
                heap[ResolvedAddr(call')] = C10_Recovered(v) =>
                    /\ Len(log') = Len(log) + 1
                    /\ log'[Len(log')].Level = "dpanic"
                    /\ log'[Len(log')].Message = Stack
                    /\ \E k \in 1..Len(log'[Len(log')].Context) :
                         log'[Len(log')].Context[k] = C10_RecoverField(v)]_vars

C10_Witness ==
    /\ ResolvedAddr(call) > 0
    /\ Len(log) = 1
    /\ log[1].Level = "dpanic"
    /\ Len(log[1].Context) = 2
    /\ log[1].Context[2].Key = "recover"
    /\ log[1].Context[2].Type = "Int64Type"
    /\ log[1].Context[2].Integer = 42

\* The nine codes of package codes.
NineCodes == {C5_ConstructorCode[c] : c \in DOMAIN C5_ConstructorCode}

\* C12: an Error whose code is none of the nine is presented without a panic,
\* logged at error level when it has no severity override, and its fragment
\* carries the message of internal, "internal error", when it has no client
\* message override.
C12_UnknownCodeDefaults ==
    (ResolvedAddr(call) > 0 /\ heap[ResolvedAddr(call)].code \notin NineCodes) =>
        LET e == heap[ResolvedAddr(call)]
        IN /\ ~call.panicked
           /\ call.frag.present
           /\ (e.level = unsetLevel => log[Len(log)].Level = "error")
           /\ (e.clientMsg = "" => call.frag.Message = "internal error")

\* C13: a presenter call leaves every Error as it was.
C13_PresenterOnlyReads == [][PresenterStep => heap' = heap]_vars

\* A step taken by a call of a constructor of the package.
ConstructorStep ==
    /\ ncalls' = ncalls + 1
    /\ call'.op \in DOMAIN C5_ConstructorCode \cup {"New", "RecoverFunc"}

\* C14: no step changes the code, the message or the path of an Error; New
\* and the nine constructors store the code, the message and the path of the
\* context they are given; the fragment the presenter returns for an Error
\* carries that Error's code and path.
C14_FixedAtConstruction ==
    [][/\ Len(heap') >= Len(heap)
       /\ \A a \in 1..Len(heap) :
            /\ heap'[a].code = heap[a].code
            /\ heap'[a].msg = heap[a].msg
            /\ heap'[a].path = heap[a].path
       /\ (ConstructorStep /\ call'.op # "RecoverFunc") =>
            /\ Len(heap') = Len(heap) + 1
            /\ heap'[Len(heap')].code =
                 (IF call'.op = "New" THEN call'.code ELSE C5_ConstructorCode[call'.op])
            /\ heap'[Len(heap')].msg = call'.arg.s
            /\ heap'[Len(heap')].path = ctx
       /\ (PresenterStep /\ ResolvedAddr(call') > 0) =>
            /\ \A p \in call'.frag.Extensions :
                 p[1] = "code" => p[2] = heap[ResolvedAddr(call')].code
            /\ \E p \in call'.frag.Extensions : p[1] = "code"
            /\ call'.frag.Path = heap[ResolvedAddr(call')].path]_vars

C14_Witness ==
    /\ ResolvedAddr(call) > 0
    /\ ncalls = 3
    /\ heap[1].code = "already_exists"
    /\ heap[1].msg = "some error"
    /\ heap[1].clientMsg = "bad input given"
    /\ <<"code", "already_exists">> \in call.frag.Extensions

\* An Error gains panic severity in this step: it resolves to panic after the
\* step and it did not exist or did not resolve to panic before.
C15_GainsPanic(a) ==
    /\ logLevel(heap'[a]) = panicLevel
    /\ (a > Len(heap) \/ logLevel(heap[a]) # panicLevel)

\* C15 as claimed: an Error gains panic severity only in a call of
\* RecoverFunc.
C15_OnlyRecoverFunc ==
    [][\A a \in 1..Len(heap') : C15_GainsPanic(a) => call'.op = "RecoverFunc"]_vars

\* C15, amended: an Error gains panic severity only in a call of the
\* decoration AtPanic or of RecoverFunc (which applies AtPanic); an entry is
\* logged at the dpanic level only for an Error whose resolved severity is
\* panic.
C15_OnlyAtPanic ==
    [][/\ \A a \in 1..Len(heap') :
            C15_GainsPanic(a) => call'.op \in {"AtPanic", "RecoverFunc"}
       /\ (PresenterStep /\ Len(log') > Len(log) /\ log'[Len(log')].Level = "dpanic") =>
            /\ ResolvedAddr(call') > 0
            /\ logLevel(heap[ResolvedAddr(call')]) = panicLevel]_vars

C15_Witness ==
    /\ call.op = "ErrorPresenter"
    /\ Len(log) = 1
    /\ log[1].Level = "dpanic"
    /\ log[1].Message = "some error"
    /\ heap[1].code = "not_found"

\* The text of the errors the fields of the model carry.
C17_CauseText(x) ==
    IF x.wraps > 0 THEN "?"
    ELSE IF x.typ = "gqlerr.randomError" THEN "a random error"
    ELSE IF x.typ = "*errors.errorString" THEN "muffin validation failed"
    ELSE "?"

\* The rendering of e with its code written by the function q.
C17_Rendered(e, q(_)) ==
    LET head == "[" \o q(e.code) \o "] " \o e.msg
        keyed == C8_TaggedAndKeyed(e)
    IN IF keyed = {} THEN head
       ELSE head \o ": " \o C17_CauseText(C8_First(e, keyed))

C17_BareCode(code) == code

C17_QuotedCode(code) == "\"" \o code \o "\""

\* C17 as claimed: Error() of a present Error is "[code] msg", the code bare,
\* followed by ": " and the text of the cause when there is one; Error() of a
\* nil *Error is "".
C17_BareRendering ==
    call.op = "Error" =>
        call.text = (IF call.self = 0 THEN ""
                     ELSE C17_Rendered(heap[call.self], C17_BareCode))

\* C17, amended: Error() of a present Error is "[code] msg" with the code in
\* double quotes between the brackets (fmt's %q), followed by ": " and the
\* text of the cause when there is one; Error() of a nil *Error is "".
C17_QuotedRendering ==
    call.op = "Error" =>
        call.text = (IF call.self = 0 THEN ""
                     ELSE C17_Rendered(heap[call.self], C17_QuotedCode))

C17_Witness ==
    /\ call.op = "Error"
    /\ call.self = 1
    /\ call.text = "[\"unimplemented\"] some error: a random error"

\* C18: each of the nine code-specific constructors allocates an Error with
\* its own code, the given message, the given fields in the given order, the
\* severity override unset and the client message and error identifier empty,
\* and returns the pointer to it.
C18_NineConstructors ==
    [][(ncalls' = ncalls + 1 /\ call'.op \in DOMAIN C5_ConstructorCode) =>
        /\ heap' = Append(heap, [code |-> C5_ConstructorCode[call'.op],
                                 msg |-> call'.arg.s,
                                 path |-> ctx,
                                 fields |-> call'.fields,
                                 level |-> unsetLevel,
                                 clientMsg |-> "",
                                 errorID |-> ""])
        /\ call'.ret = Ptr(Len(heap) + 1)
        /\ log' = log]_vars

C18_Witness ==
    /\ call.op = "ResourceExhausted"
    /\ heap[1].code = "resource_exhausted"
    /\ Len(heap[1].fields) = 6
    /\ heap[1].fields[2].Key = "another_field"
    /\ heap[1].fields = call.fields

\* The first *Error of the chain of x: fmt.Errorf layers are the only
\* wrappers, so it is the value they wrap; 0 when that is no present *Error.
C11_Outermost(x) == IF x.typ = "*Error" THEN x.addr ELSE 0

\* C11: when the chain of the presenter's input holds a present Error, the
\* entry logged and the fragment returned are those of the outermost one,
\* whatever wraps it and whatever Error its fields carry, and no other Error
\* is touched.
C11_OutermostPresented ==
    [][(PresenterStep /\ C11_Outermost(call'.in) > 0) =>
        LET a == C11_Outermost(call'.in)
            e == heap[a]
        IN /\ ~call'.panicked
           /\ log' = Append(log, Entry(logFn(logLevel(e)), e.msg, logFields(e)))
           /\ call'.frag = toGQLError(e)
           /\ \A b \in 1..Len(heap) : b # a => heap'[b] = heap[b]]_vars

C11_Witness ==
    /\ call.op = "ErrorPresenter"
    /\ call.in = Wrap(Ptr(2))
    /\ Len(heap) = 2
    /\ err(heap[2]) = Wrap(Ptr(1))
    /\ heap[1].code = "not_found"
    /\ log[1].Message = "request failed validation"
    /\ call.frag.Message = "invalid request"
    /\ call.frag.Extensions = {<<"code", "invalid_argument">>}

\* What the presenter, run on its own from an empty log, does with the Error
\* the invocation r resolved, as that Error was when errors.As found it.
C16_Alone(r) == ErrorPresenter(<<>>, <<inflight[r].start>>, <<>>, Ptr(1))

\* The step is one of the invocation r.
C16_StepOf(r) == inflight'[r] # inflight[r]

\* C16: in every interleaving of the presenter invocations of independent
\* requests, each invocation appends to the log exactly the entry, and
\* returns exactly the fragment, the presenter run alone on its Error gives;
\* a step of one invocation changes no local of another and no Error but its
\* own, and no two invocations resolve to the same Error.
C16_NoInterference ==
    [][\A r \in Requests :
        /\ C16_StepOf(r) =>
            /\ \A s \in Requests \ {r} : inflight'[s] = inflight[s]
            /\ \A a \in 1..Len(heap) : a # inflight'[r].e => heap'[a] = heap[a]
            /\ \A s \in Requests \ {r} :
                 inflight'[r].e > 0 => inflight'[s].e # inflight'[r].e
        /\ (C16_StepOf(r) /\ inflight'[r].pc = "logged") =>
            log' = Append(log, C16_Alone(r).log[1])
        /\ (C16_StepOf(r) /\ inflight'[r].pc # "logged") => log' = log
        /\ (C16_StepOf(r) /\ inflight'[r].pc = "done") =>
            /\ inflight'[r].frag = C16_Alone(r).frag
            /\ heap'[inflight'[r].e] = C16_Alone(r).heap[1]]_vars

C16_Witness ==
    /\ \A r \in Requests : inflight[r].pc = "done"
    /\ Len(log) = MaxRequests
    /\ log[1].Level = "dpanic"
    /\ log[1].Context[1].Key = "gql_path"
    /\ inflight[2].e = 2
    /\ inflight[2].logFn = "dpanic"
    /\ inflight[1].logFn = "warn"
    /\ inflight[1].frag.Message = "not found"
    /\ inflight[1].frag.Path = <<>>

====
